---- MODULE Spec2Model ----
(***************************************************************************)
(* Model of ferdinandre/tradingdemo:                                       *)
(*   - StrategyTemplate<Derived>  (src/StrategyTemplate.hpp): validation   *)
(*     and dispatch, bound to the HTTP adapter AlpacaPaperApi              *)
(*     (src/AlpacaStrategy.cpp);                                           *)
(*   - ChineseStrategy (src/ChineseStrategy.cpp): the session adapter over *)
(*     IIbkrGateway and its closing sweep CloseAllPositions_Impl;          *)
(*   - live_loop (src/liveloop.hpp): the market-session scheduler.         *)
(* Quantities and prices are doubles in the code; here they are integers   *)
(* counted in half-epsilons (one unit = 0.5e-12), so that values below,    *)
(* at and above the sweep's 1e-12 threshold all exist.                     *)
(***************************************************************************)
EXTENDS Integers, Sequences, FiniteSets, TLC

(* ---------------------------- bounds ----------------------------------- *)
\* longest position snapshot the gateway returns
MaxPositions == 2
\* Gateway order ids handed out to the place operations of one run.
MaxOrders == 2

(* ------------------------ program constants ---------------------------- *)
\* 1e-12 of ChineseStrategy.cpp:137, in units of 0.5e-12
Eps == 2
\* std::chrono::seconds(30) of liveloop.hpp:168
SleepSeconds == 30

(* --------------------------- value domains ----------------------------- *)
Symbols == {"", "SPY"}
Sides == {"Buy", "Sell"}
TimeInForces == {"Day", "GTC", "IOC", "FOK"}
Qtys == {-1, 0, 3}
Prices == {-1, 0, 5}

MarketOrders == [symbol : Symbols, side : Sides, qty : Qtys, tif : TimeInForces]
LimitOrders == [symbol : Symbols, side : Sides, qty : Qtys, limitPrice : Prices, tif : {"Day"}]
StopOrders == [symbol : Symbols, side : Sides, qty : Qtys, stopPrice : Prices, tif : {"GTC"}]
ShortOrders == [symbol : Symbols, qty : Qtys, tif : {"Day", "FOK"}]

\* What the broker's HTTP endpoint may answer: a response with a status and a
\* body, or no response at all (curl_easy_perform fails).
HttpStatuses == {199, 200, 299, 300, 422}
\* A response body, as far as the adapter's scanning can tell bodies apart:
\* whether the key "id":" occurs, whether a closing quote follows, and the text
\* in between.
HttpBodies == { [hasKey |-> TRUE, closed |-> TRUE, text |-> "ord-1"],
                [hasKey |-> TRUE, closed |-> FALSE, text |-> "ord-1"],
                [hasKey |-> FALSE, closed |-> FALSE, text |-> ""] }
HttpOutcomes == [kind : {"response"}, status : HttpStatuses, body : HttpBodies]
                  \cup { [kind |-> "curl_failed"] }

VARIABLES
    req,        \* the caller's last request at the dispatch layer
    implCalls,  \* the adapter *_Impl invocations that request made, in order
    httpLog,    \* the HTTP requests that request made, in order, each with its outcome
    ret,        \* how the request ended: a returned value or a thrown error
    gwNextId,   \* IIbkrGateway: the id its next nextOrderId() call returns
    gwLog,      \* IIbkrGateway: the calls of the current ChineseStrategy operation
    pc,         \* CloseAllPositions_Impl: "idle", "loop" or "returned"
    positions,  \* CloseAllPositions_Impl: the snapshot it iterates
    idx,        \* CloseAllPositions_Impl: index of the loop's next position
    sent,       \* CloseAllPositions_Impl: local sent
    orderIds,   \* CloseAllPositions_Impl: local orderIds
    closeLog,   \* the PlaceMarketOrder_Impl calls of the sweep, with their results
    out,        \* the PositionCloseResult returned, NoResult while none is
    loopPc,     \* live_loop: "top", "picked", "printed" or "terminated"
    pick,       \* live_loop: the MarketPick of the current iteration
    cycleLog,   \* live_loop: what the current iteration did so far, in order
    sessReq,    \* ChineseStrategy: the operation last called on it, with its argument
    sessRet     \* ChineseStrategy: the OrderResult that call returned, NoResult if none

dispatchVars == <<req, implCalls, httpLog, ret>>
sweepVars == <<gwNextId, gwLog, pc, positions, idx, sent, orderIds, closeLog, out>>
loopVars == <<loopPc, pick, cycleLog>>
sessionVars == <<sessReq, sessRet>>
vars == <<req, implCalls, httpLog, ret,
          gwNextId, gwLog, pc, positions, idx, sent, orderIds, closeLog, out,
          loopPc, pick, cycleLog, sessReq, sessRet>>

(* ------------------- AlpacaPaperApi (the HTTP adapter) ----------------- *)

to_tif(tif) ==
    CASE tif = "Day" -> "day"
      [] tif = "GTC" -> "gtc"
      [] tif = "IOC" -> "ioc"
      [] tif = "FOK" -> "fok"
      [] OTHER -> "day"

NullOpt == "nullopt"

\* The JSON object of build_order_json as its key/value pairs; the two price
\* keys are absent (NullOpt) unless given. The model's numbers print exactly.
build_order_json(symbol, side, qty, type, limit_price, stop_price, tif) ==
    [symbol |-> symbol, qty |-> qty, side |-> side, type |-> type,
     time_in_force |-> tif, limit_price |-> limit_price, stop_price |-> stop_price]

\* One HTTP exchange: the request that went out and, per the endpoint's
\* outcome h, the (status, body) pair or the runtime_error of a failed transfer.
http_req(method, url, body, h) ==
    [request |-> [method |-> method, url |-> url, body |-> body],
     threw   |-> h.kind = "curl_failed",
     status  |-> IF h.kind = "response" THEN h.status ELSE 0,
     body    |-> IF h.kind = "response" THEN h.body ELSE NullOpt]

http_get(url, h) == http_req("GET", url, NullOpt, h)
http_delete(url, h) == http_req("DELETE", url, NullOpt, h)
http_post(url, body, h) == http_req("POST", url, body, h)

\* Mutant of Is2xx: 300 counts as success.
Is2xx_Through300(status) == status >= 200 /\ status <= 300

Is2xx(status) == status >= 200 /\ status < 300

parse_order_result(status, resp) ==
    IF Is2xx(status)
    THEN [orderId  |-> IF resp.hasKey /\ resp.closed THEN resp.text ELSE "",
          accepted |-> TRUE,
          message  |-> [text |-> "Accepted"]]
    ELSE [orderId  |-> "",
          accepted |-> FALSE,
          message  |-> [text |-> "Order failed: HTTP", status |-> status, body |-> resp]]

\* What an adapter operation hands back to its caller: the HTTP requests it
\* made, and either its result or the error that escaped it.
ImplReturn(http, result) ==
    [http |-> <<http>>, threw |-> http.threw,
     result |-> IF http.threw THEN "runtime_error" ELSE result]

PostOrder(body, h) ==
    LET r == http_post("/v2/orders", body, h)
    IN  ImplReturn(r, IF r.threw THEN NullOpt ELSE parse_order_result(r.status, r.body))

SideText(side) == IF side = "Buy" THEN "buy" ELSE "sell"

PlaceMarketOrder_Impl(o, h) ==
    PostOrder(build_order_json(o.symbol, SideText(o.side), o.qty, "market",
                               NullOpt, NullOpt, to_tif(o.tif)), h)

PlaceShortOrder_Impl(o, h) ==
    PostOrder(build_order_json(o.symbol, "sell", o.qty, "market",
                               NullOpt, NullOpt, to_tif(o.tif)), h)

PlaceStopOrder_Impl(o, h) ==
    PostOrder(build_order_json(o.symbol, SideText(o.side), o.qty, "stop",
                               NullOpt, o.stopPrice, to_tif(o.tif)), h)

PlaceLimitOrder_Impl(o, h) ==
    PostOrder(build_order_json(o.symbol, SideText(o.side), o.qty, "limit",
                               o.limitPrice, NullOpt, to_tif(o.tif)), h)

\* Mutant of CloseAllPositions_Impl: the status is not looked at.
CloseAllPositions_Impl_StatusIgnored(h) ==
    LET r == http_delete("/v2/positions", h)
    IN  ImplReturn(r, [success |-> TRUE, message |-> [text |-> "Closed all positions."]])

CloseAllPositions_Impl(h) ==
    LET r == http_delete("/v2/positions", h)
    IN  ImplReturn(r,
          IF Is2xx(r.status)
          THEN [success |-> TRUE, message |-> [text |-> "Closed all positions."]]
          ELSE [success |-> FALSE,
                message |-> [text |-> "CloseAllPositions failed: HTTP",
                             status |-> r.status, body |-> r.body]])

\* next_open is located by scanning for its key and the closing quote; the
\* parsed time is a placeholder, the epoch.
GetNextMarketOpenTime_Impl(h, hasKey, closed) ==
    LET r == http_get("/v2/clock", h)
    IN  ImplReturn(r,
          IF ~Is2xx(r.status) THEN NullOpt
          ELSE IF ~hasKey THEN NullOpt
          ELSE IF ~closed THEN NullOpt
          ELSE "SysTime{}")

\* The market-clock query of the adapter: it answers open or closed.
IsMarketOpen_Impl(open) ==
    [http |-> <<>>, threw |-> FALSE, result |-> open]

(* ------------- StrategyTemplate (validation and dispatch) -------------- *)

NoError == "none"

\* Mutant of validate_basic: a zero quantity passes.
validate_basic_ZeroQtyPasses(symbol, qty) ==
    IF symbol = "" THEN "symbol must not be empty"
    ELSE IF qty < 0 THEN "qty must be > 0"
    ELSE NoError

\* validate_basic: the error it throws, or NoError.
validate_basic(symbol, qty) ==
    IF symbol = "" THEN "symbol must not be empty"
    ELSE IF qty <= 0 THEN "qty must be > 0"
    ELSE NoError

\* Mutant of PriceRejected: a zero price passes.
PriceRejected_ZeroPasses(price) == price < 0

\* The price test of PlaceStopOrder / PlaceLimitOrder.
PriceRejected(price) == price <= 0

InvalidArgument(what) ==
    [calls |-> <<>>, http |-> <<>>, ret |-> [kind |-> "invalid_argument", what |-> what]]

\* return derived().<op>_Impl(arg): one adapter invocation whose result, or
\* whose escaping error, is the dispatch call's own.
Forward(op, arg, impl) ==
    [calls |-> <<[op |-> op, arg |-> arg, threw |-> impl.threw, result |-> impl.result]>>,
     http  |-> impl.http,
     ret   |-> IF impl.threw THEN [kind |-> "runtime_error"]
               ELSE [kind |-> "return", value |-> impl.result]]

PlaceMarketOrder(o, h) ==
    IF validate_basic(o.symbol, o.qty) # NoError
    THEN InvalidArgument(validate_basic(o.symbol, o.qty))
    ELSE Forward("PlaceMarketOrder_Impl", o, PlaceMarketOrder_Impl(o, h))

\* Mutant of PlaceShortOrder: the short is rewritten as a market sell and
\* handed to the market-order operation.
PlaceShortOrder_AsMarketSell(o, h) ==
    IF validate_basic(o.symbol, o.qty) # NoError
    THEN InvalidArgument(validate_basic(o.symbol, o.qty))
    ELSE LET m == [symbol |-> o.symbol, side |-> "Sell", qty |-> o.qty, tif |-> o.tif]
         IN  Forward("PlaceMarketOrder_Impl", m, PlaceMarketOrder_Impl(m, h))

PlaceShortOrder(o, h) ==
    IF validate_basic(o.symbol, o.qty) # NoError
    THEN InvalidArgument(validate_basic(o.symbol, o.qty))
    ELSE Forward("PlaceShortOrder_Impl", o, PlaceShortOrder_Impl(o, h))

PlaceStopOrder(o, h) ==
    IF validate_basic(o.symbol, o.qty) # NoError
    THEN InvalidArgument(validate_basic(o.symbol, o.qty))
    ELSE IF PriceRejected(o.stopPrice) THEN InvalidArgument("stopPrice must be > 0")
    ELSE Forward("PlaceStopOrder_Impl", o, PlaceStopOrder_Impl(o, h))

PlaceLimitOrder(o, h) ==
    IF validate_basic(o.symbol, o.qty) # NoError
    THEN InvalidArgument(validate_basic(o.symbol, o.qty))
    ELSE IF PriceRejected(o.limitPrice) THEN InvalidArgument("limitPrice must be > 0")
    ELSE Forward("PlaceLimitOrder_Impl", o, PlaceLimitOrder_Impl(o, h))

CloseAllPositions(h) ==
    Forward("CloseAllPositions_Impl", NullOpt, CloseAllPositions_Impl(h))

IsMarketOpen(open) ==
    Forward("IsMarketOpen_Impl", NullOpt, IsMarketOpen_Impl(open))

GetNextMarketOpenTime(h, hasKey, closed) ==
    Forward("GetNextMarketOpenTime_Impl", NullOpt,
            GetNextMarketOpenTime_Impl(h, hasKey, closed))

\* A caller's call at the dispatch layer: the request is noted, and the
\* recordings (adapter invocations, HTTP requests) are those of this call alone.
CallPlaceMarketOrder ==
    \E o \in MarketOrders, h \in HttpOutcomes :
        LET d == PlaceMarketOrder(o, h)
        IN  /\ req' = [op |-> "PlaceMarketOrder", arg |-> o]
            /\ implCalls' = d.calls
            /\ httpLog' = d.http
            /\ ret' = d.ret
            /\ UNCHANGED <<sweepVars, loopVars, sessionVars>>

CallPlaceShortOrder ==
    \E o \in ShortOrders, h \in HttpOutcomes :
        LET d == PlaceShortOrder(o, h)
        IN  /\ req' = [op |-> "PlaceShortOrder", arg |-> o]
            /\ implCalls' = d.calls
            /\ httpLog' = d.http
            /\ ret' = d.ret
            /\ UNCHANGED <<sweepVars, loopVars, sessionVars>>

CallPlaceStopOrder ==
    \E o \in StopOrders, h \in HttpOutcomes :
        LET d == PlaceStopOrder(o, h)
        IN  /\ req' = [op |-> "PlaceStopOrder", arg |-> o]
            /\ implCalls' = d.calls
            /\ httpLog' = d.http
            /\ ret' = d.ret
            /\ UNCHANGED <<sweepVars, loopVars, sessionVars>>

CallPlaceLimitOrder ==
    \E o \in LimitOrders, h \in HttpOutcomes :
        LET d == PlaceLimitOrder(o, h)
        IN  /\ req' = [op |-> "PlaceLimitOrder", arg |-> o]
            /\ implCalls' = d.calls
            /\ httpLog' = d.http
            /\ ret' = d.ret
            /\ UNCHANGED <<sweepVars, loopVars, sessionVars>>

CallCloseAllPositions ==
    \E h \in HttpOutcomes :
        LET d == CloseAllPositions(h)
        IN  /\ req' = [op |-> "CloseAllPositions", arg |-> NullOpt]
            /\ implCalls' = d.calls
            /\ httpLog' = d.http
            /\ ret' = d.ret
            /\ UNCHANGED <<sweepVars, loopVars, sessionVars>>

CallIsMarketOpen ==
    \E open \in BOOLEAN :
        LET d == IsMarketOpen(open)
        IN  /\ req' = [op |-> "IsMarketOpen", arg |-> NullOpt]
            /\ implCalls' = d.calls
            /\ httpLog' = d.http
            /\ ret' = d.ret
            /\ UNCHANGED <<sweepVars, loopVars, sessionVars>>

CallGetNextMarketOpenTime ==
    \E h \in HttpOutcomes, hasKey \in BOOLEAN, closed \in BOOLEAN :
        LET d == GetNextMarketOpenTime(h, hasKey, closed)
        IN  /\ req' = [op |-> "GetNextMarketOpenTime", arg |-> NullOpt]
            /\ implCalls' = d.calls
            /\ httpLog' = d.http
            /\ ret' = d.ret
            /\ UNCHANGED <<sweepVars, loopVars, sessionVars>>

(* ------------- ChineseStrategy (the session adapter) ------------------- *)

Instruments ==
    { [symbol |-> "IF", secType |-> "FUT", exchange |-> "CFFEX", currency |-> "CNY",
       lastTradeDateOrContractMonth |-> "202603", tradingClass |-> "IF",
       multiplier |-> "300"],
      [symbol |-> "IF", secType |-> "FUT", exchange |-> "CFFEX", currency |-> "CNY",
       lastTradeDateOrContractMonth |-> "", tradingClass |-> "", multiplier |-> ""],
      [symbol |-> "510300", secType |-> "STK", exchange |-> "SSE", currency |-> "CNY",
       lastTradeDateOrContractMonth |-> "202603", tradingClass |-> "", multiplier |-> ""],
      [symbol |-> "", secType |-> "STK", exchange |-> "SMART", currency |-> "CNH",
       lastTradeDateOrContractMonth |-> "", tradingClass |-> "", multiplier |-> ""] }

\* Signed position sizes: short above the threshold, short below it, flat,
\* long exactly at the threshold, long above it.
PositionQtys == {-3, -1, 0, 2, 3}

\* OpenPosition; avgCost is never read by the adapter and is left out.
OpenPositions == [instrument : Instruments, position : PositionQtys]

Snapshots == UNION { [1..n -> OpenPositions] : n \in 0..MaxPositions }

\* The order DTOs of ChineseStrategy.hpp.
CnTifs == {"DAY", "GTC"}
CnMarketOrders == [instrument : Instruments, quantity : Qtys, isBuy : BOOLEAN, tif : CnTifs]
CnShortOrders == [instrument : Instruments, quantity : Qtys, tif : {"DAY"}]
CnStopOrders ==
    [instrument : Instruments, quantity : Qtys, isBuy : BOOLEAN, stopPrice : Prices,
     tif : {"GTC"}]
CnLimitOrders ==
    [instrument : Instruments, quantity : Qtys, isBuy : BOOLEAN, limitPrice : Prices,
     tif : {"DAY"}]

\* The id the connected gateway hands out first (its nextValidId).
FirstOrderIds == {1, 7}

\* What a failed getOpenPositionsSnapshot() says (e.what()).
SnapshotErrors == {"not connected", "positionEnd timed out"}

\* How the gateway answers one submission: both calls succeed, nextOrderId()
\* throws, or placeOrder() throws (a std::exception in either case).
GwOutcomes == {"ok", "nextOrderId_throws", "placeOrder_throws"}

Abs(x) == IF x < 0 THEN -x ELSE x

ActionFromBuy(isBuy) == IF isBuy THEN "BUY" ELSE "SELL"

\* A default-constructed Contract has empty strings.
BuildContract(i) ==
    [symbol   |-> i.symbol,
     secType  |-> i.secType,
     exchange |-> i.exchange,
     currency |-> i.currency,
     lastTradeDateOrContractMonth |->
         IF i.secType = "FUT" THEN i.lastTradeDateOrContractMonth ELSE "",
     tradingClass |->
         IF i.secType = "FUT" /\ i.tradingClass # "" THEN i.tradingClass ELSE "",
     multiplier |->
         IF i.secType = "FUT" /\ i.multiplier # "" THEN i.multiplier ELSE ""]

\* Mutant of SendOrder: the id taken before a failed placeOrder is reported.
SendOrder_ReportsConsumedId(c, o, nextId, g) ==
    IF o.totalQuantity <= 0
    THEN [r |-> [ok |-> FALSE, orderId |-> -1,
                 message |-> [text |-> "Quantity must be > 0"]],
          calls |-> <<>>, nextId |-> nextId]
    ELSE IF g = "nextOrderId_throws"
    THEN [r |-> [ok |-> FALSE, orderId |-> -1,
                 message |-> [text |-> "Failed to send order: ", what |-> g]],
          calls |-> <<[op |-> "nextOrderId", ok |-> FALSE]>>,
          nextId |-> nextId]
    ELSE IF g = "placeOrder_throws"
    THEN [r |-> [ok |-> FALSE, orderId |-> nextId,
                 message |-> [text |-> "Failed to send order: ", what |-> g]],
          calls |-> <<[op |-> "nextOrderId", ok |-> TRUE, orderId |-> nextId],
                      [op |-> "placeOrder", ok |-> FALSE, orderId |-> nextId,
                       contract |-> c, order |-> o]>>,
          nextId |-> nextId + 1]
    ELSE [r |-> [ok |-> TRUE, orderId |-> nextId,
                 message |-> [text |-> "Order sent to IBKR"]],
          calls |-> <<[op |-> "nextOrderId", ok |-> TRUE, orderId |-> nextId],
                      [op |-> "placeOrder", ok |-> TRUE, orderId |-> nextId,
                       contract |-> c, order |-> o]>>,
          nextId |-> nextId + 1]

\* Mutant of SendOrder: a failed placeOrder is tried a second time, with a new id.
SendOrder_RetriesOnce(c, o, nextId, g) ==
    IF o.totalQuantity <= 0
    THEN [r |-> [ok |-> FALSE, orderId |-> -1,
                 message |-> [text |-> "Quantity must be > 0"]],
          calls |-> <<>>, nextId |-> nextId]
    ELSE IF g = "nextOrderId_throws"
    THEN [r |-> [ok |-> FALSE, orderId |-> -1,
                 message |-> [text |-> "Failed to send order: ", what |-> g]],
          calls |-> <<[op |-> "nextOrderId", ok |-> FALSE]>>,
          nextId |-> nextId]
    ELSE IF g = "placeOrder_throws"
    THEN [r |-> [ok |-> FALSE, orderId |-> -1,
                 message |-> [text |-> "Failed to send order: ", what |-> g]],
          calls |-> <<[op |-> "nextOrderId", ok |-> TRUE, orderId |-> nextId],
                      [op |-> "placeOrder", ok |-> FALSE, orderId |-> nextId,
                       contract |-> c, order |-> o],
                      [op |-> "nextOrderId", ok |-> TRUE, orderId |-> nextId + 1],
                      [op |-> "placeOrder", ok |-> FALSE, orderId |-> nextId + 1,
                       contract |-> c, order |-> o]>>,
          nextId |-> nextId + 2]
    ELSE [r |-> [ok |-> TRUE, orderId |-> nextId,
                 message |-> [text |-> "Order sent to IBKR"]],
          calls |-> <<[op |-> "nextOrderId", ok |-> TRUE, orderId |-> nextId],
                      [op |-> "placeOrder", ok |-> TRUE, orderId |-> nextId,
                       contract |-> c, order |-> o]>>,
          nextId |-> nextId + 1]

\* SendOrder against a gateway whose next id is nextId and which answers g:
\* the OrderResult r, the gateway calls made, and the gateway's next id after.
SendOrder(c, o, nextId, g) ==
    IF o.totalQuantity <= 0
    THEN [r |-> [ok |-> FALSE, orderId |-> -1,
                 message |-> [text |-> "Quantity must be > 0"]],
          calls |-> <<>>, nextId |-> nextId]
    ELSE IF g = "nextOrderId_throws"
    THEN [r |-> [ok |-> FALSE, orderId |-> -1,
                 message |-> [text |-> "Failed to send order: ", what |-> g]],
          calls |-> <<[op |-> "nextOrderId", ok |-> FALSE]>>,
          nextId |-> nextId]
    ELSE IF g = "placeOrder_throws"
    THEN [r |-> [ok |-> FALSE, orderId |-> -1,
                 message |-> [text |-> "Failed to send order: ", what |-> g]],
          calls |-> <<[op |-> "nextOrderId", ok |-> TRUE, orderId |-> nextId],
                      [op |-> "placeOrder", ok |-> FALSE, orderId |-> nextId,
                       contract |-> c, order |-> o]>>,
          nextId |-> nextId + 1]
    ELSE [r |-> [ok |-> TRUE, orderId |-> nextId,
                 message |-> [text |-> "Order sent to IBKR"]],
          calls |-> <<[op |-> "nextOrderId", ok |-> TRUE, orderId |-> nextId],
                      [op |-> "placeOrder", ok |-> TRUE, orderId |-> nextId,
                       contract |-> c, order |-> o]>>,
          nextId |-> nextId + 1]

ChineseStrategy_PlaceMarketOrder_Impl(in, nextId, g) ==
    SendOrder(BuildContract(in.instrument),
              [action |-> ActionFromBuy(in.isBuy), orderType |-> "MKT",
               totalQuantity |-> in.quantity, tif |-> in.tif],
              nextId, g)

ChineseStrategy_PlaceShortOrder_Impl(in, nextId, g) ==
    SendOrder(BuildContract(in.instrument),
              [action |-> "SELL", orderType |-> "MKT",
               totalQuantity |-> in.quantity, tif |-> in.tif],
              nextId, g)

\* return OrderResult{false, -1, "... must be > 0"}: no gateway call is made.
PriceRefusal(text, nextId) ==
    [r |-> [ok |-> FALSE, orderId |-> -1, message |-> [text |-> text]],
     calls |-> <<>>, nextId |-> nextId]

\* Mutant of ChineseStrategy_PlaceStopOrder_Impl: the stop price is not tested.
ChineseStrategy_PlaceStopOrder_Impl_PriceUnchecked(in, nextId, g) ==
    SendOrder(BuildContract(in.instrument),
              [action |-> ActionFromBuy(in.isBuy), orderType |-> "STP",
               totalQuantity |-> in.quantity, auxPrice |-> in.stopPrice,
               tif |-> in.tif],
              nextId, g)

ChineseStrategy_PlaceStopOrder_Impl(in, nextId, g) ==
    IF ~(in.stopPrice > 0)
    THEN PriceRefusal("StopPrice must be > 0", nextId)
    ELSE SendOrder(BuildContract(in.instrument),
                   [action |-> ActionFromBuy(in.isBuy), orderType |-> "STP",
                    totalQuantity |-> in.quantity, auxPrice |-> in.stopPrice,
                    tif |-> in.tif],
                   nextId, g)

ChineseStrategy_PlaceLimitOrder_Impl(in, nextId, g) ==
    IF ~(in.limitPrice > 0)
    THEN PriceRefusal("LimitPrice must be > 0", nextId)
    ELSE SendOrder(BuildContract(in.instrument),
                   [action |-> ActionFromBuy(in.isBuy), orderType |-> "LMT",
                    totalQuantity |-> in.quantity, lmtPrice |-> in.limitPrice,
                    tif |-> in.tif],
                   nextId, g)

(* ------------- ChineseStrategy::CloseAllPositions_Impl ----------------- *)

NoResult == [kind |-> "none"]

\* Mutant of IsFlat: only an exact zero is skipped.
IsFlat_ZeroOnly(p) == p.position = 0

\* if (std::fabs(p.position) < 1e-12) continue;
IsFlat(p) == Abs(p.position) < Eps

\* Mutant of CloseOrderFor: the closing side is the position's own side.
CloseOrderFor_SameSide(p) ==
    [instrument |-> p.instrument,
     quantity   |-> Abs(p.position),
     isBuy      |-> p.position > 0,
     tif        |-> "DAY"]

\* The market order that closes position p.
CloseOrderFor(p) ==
    [instrument |-> p.instrument,
     quantity   |-> Abs(p.position),
     isBuy      |-> p.position < 0,
     tif        |-> "DAY"]

\* Mutant of Accumulate: sent is incremented outside the test of res.ok.
Accumulate_CountsEveryAttempt(acc, res) ==
    IF res.ok
    THEN [sent |-> acc.sent + 1, orderIds |-> Append(acc.orderIds, res.orderId)]
    ELSE [sent |-> acc.sent + 1, orderIds |-> acc.orderIds]

\* Mutant of Accumulate: the identifier is inserted at the front.
Accumulate_Prepends(acc, res) ==
    IF res.ok
    THEN [sent |-> acc.sent + 1, orderIds |-> <<res.orderId>> \o acc.orderIds]
    ELSE acc

\* if (res.ok) { sent++; orderIds.push_back(res.orderId); }
Accumulate(acc, res) ==
    IF res.ok
    THEN [sent |-> acc.sent + 1, orderIds |-> Append(acc.orderIds, res.orderId)]
    ELSE acc

\* Mutant of SnapshotFailure: the failed fetch is reported as a success.
SnapshotFailure_ReportsOk(what) ==
    [ok |-> TRUE, closeOrdersSent |-> 0, orderIds |-> <<>>,
     message |-> [text |-> "Failed to fetch positions: ", what |-> what]]

\* The result of the catch block around getOpenPositionsSnapshot().
SnapshotFailure(what) ==
    [ok |-> FALSE, closeOrdersSent |-> 0, orderIds |-> <<>>,
     message |-> [text |-> "Failed to fetch positions: ", what |-> what]]

\* Mutant of SweepResult: success requires at least one accepted close.
SweepResult_OkOnlyIfSent(n, ids) ==
    [ok |-> n > 0, closeOrdersSent |-> n, orderIds |-> ids,
     message |-> [text |-> "CloseAllPositions: sent market close orders", sent |-> n]]

\* Mutant of SweepResult: the count reported is the number of identifiers
\* plus one.
SweepResult_CountOffByOne(n, ids) ==
    [ok |-> TRUE, closeOrdersSent |-> n + 1, orderIds |-> ids,
     message |-> [text |-> "CloseAllPositions: sent market close orders", sent |-> n]]

\* The result built after the loop.
SweepResult(n, ids) ==
    [ok |-> TRUE, closeOrdersSent |-> n, orderIds |-> ids,
     message |-> [text |-> "CloseAllPositions: sent market close orders", sent |-> n]]

\* Entry: the snapshot is fetched. A failed fetch returns at once. Every local
\* of the call starts afresh; the gateway's id counter is all that a call
\* inherits, so one call from each starting id stands for every call.
CloseAll_FetchFails ==
    /\ pc = "idle"
    /\ \E what \in SnapshotErrors :
         /\ gwLog' = <<[op |-> "getOpenPositionsSnapshot", ok |-> FALSE, what |-> what]>>
         /\ out' = SnapshotFailure(what)
    /\ positions' = <<>>
    /\ idx' = 1
    /\ sent' = 0
    /\ orderIds' = <<>>
    /\ closeLog' = <<>>
    /\ pc' = "returned"
    /\ sessReq' = [op |-> "CloseAllPositions", arg |-> NullOpt]
    /\ sessRet' = NoResult
    /\ UNCHANGED <<gwNextId, req, implCalls, httpLog, ret, loopVars>>

CloseAll_Fetch ==
    /\ pc = "idle"
    /\ \E snap \in Snapshots : positions' = snap
    /\ gwLog' = <<[op |-> "getOpenPositionsSnapshot", ok |-> TRUE]>>
    /\ idx' = 1
    /\ sent' = 0
    /\ orderIds' = <<>>
    /\ closeLog' = <<>>
    /\ out' = NoResult
    /\ pc' = "loop"
    /\ sessReq' = [op |-> "CloseAllPositions", arg |-> NullOpt]
    /\ sessRet' = NoResult
    /\ UNCHANGED <<gwNextId, req, implCalls, httpLog, ret, loopVars>>

\* One iteration of the loop over a flat position: continue.
CloseAll_Skip ==
    /\ pc = "loop"
    /\ idx <= Len(positions)
    /\ IsFlat(positions[idx])
    /\ idx' = idx + 1
    /\ UNCHANGED <<gwNextId, gwLog, pc, positions, sent, orderIds, closeLog, out,
                   req, implCalls, httpLog, ret, loopVars, sessionVars>>

\* One iteration of the loop over a position that is not flat.
CloseAll_Close ==
    /\ pc = "loop"
    /\ idx <= Len(positions)
    /\ ~IsFlat(positions[idx])
    /\ \E g \in GwOutcomes :
         LET mo  == CloseOrderFor(positions[idx])
             s   == ChineseStrategy_PlaceMarketOrder_Impl(mo, gwNextId, g)
             acc == Accumulate([sent |-> sent, orderIds |-> orderIds], s.r)
         IN  /\ gwNextId' = s.nextId
             /\ gwLog' = gwLog \o s.calls
             /\ closeLog' = Append(closeLog,
                                   [pos |-> idx, order |-> mo, res |-> s.r,
                                    calls |-> s.calls])
             /\ sent' = acc.sent
             /\ orderIds' = acc.orderIds
    /\ idx' = idx + 1
    /\ UNCHANGED <<pc, positions, out, req, implCalls, httpLog, ret, loopVars, sessionVars>>

\* After the loop: the result is built and returned.
CloseAll_Return ==
    /\ pc = "loop"
    /\ idx > Len(positions)
    /\ out' = SweepResult(sent, orderIds)
    /\ pc' = "returned"
    /\ UNCHANGED <<gwNextId, gwLog, positions, idx, sent, orderIds, closeLog,
                   req, implCalls, httpLog, ret, loopVars, sessionVars>>

InitSweep ==
    /\ gwNextId \in FirstOrderIds
    /\ gwLog = <<>>
    /\ pc = "idle"
    /\ positions = <<>>
    /\ idx = 1
    /\ sent = 0
    /\ orderIds = <<>>
    /\ closeLog = <<>>
    /\ out = NoResult

NextSweep ==
    \/ CloseAll_FetchFails
    \/ CloseAll_Fetch
    \/ CloseAll_Skip
    \/ CloseAll_Close
    \/ CloseAll_Return

(* --------------- ChineseStrategy: the place operations ----------------- *)

\* The ids the gateway has handed out since it was set up.
IdsIssued ==
    gwNextId - (CHOOSE f \in FirstOrderIds :
                    /\ f <= gwNextId
                    /\ \A f2 \in FirstOrderIds : f2 <= gwNextId => f2 <= f)

\* A place operation is called between sweeps, on a gateway that has handed
\* out fewer than MaxOrders ids.
CanPlace == pc = "idle" /\ IdsIssued < MaxOrders

Session_PlaceMarketOrder ==
    /\ CanPlace
    /\ \E in \in CnMarketOrders, g \in GwOutcomes :
         LET s == ChineseStrategy_PlaceMarketOrder_Impl(in, gwNextId, g)
         IN  /\ sessReq' = [op |-> "PlaceMarketOrder", arg |-> in]
             /\ sessRet' = s.r
             /\ gwLog' = s.calls
             /\ gwNextId' = s.nextId
    /\ UNCHANGED <<pc, positions, idx, sent, orderIds, closeLog, out,
                   dispatchVars, loopVars>>

Session_PlaceShortOrder ==
    /\ CanPlace
    /\ \E in \in CnShortOrders, g \in GwOutcomes :
         LET s == ChineseStrategy_PlaceShortOrder_Impl(in, gwNextId, g)
         IN  /\ sessReq' = [op |-> "PlaceShortOrder", arg |-> in]
             /\ sessRet' = s.r
             /\ gwLog' = s.calls
             /\ gwNextId' = s.nextId
    /\ UNCHANGED <<pc, positions, idx, sent, orderIds, closeLog, out,
                   dispatchVars, loopVars>>

Session_PlaceStopOrder ==
    /\ CanPlace
    /\ \E in \in CnStopOrders, g \in GwOutcomes :
         LET s == ChineseStrategy_PlaceStopOrder_Impl(in, gwNextId, g)
         IN  /\ sessReq' = [op |-> "PlaceStopOrder", arg |-> in]
             /\ sessRet' = s.r
             /\ gwLog' = s.calls
             /\ gwNextId' = s.nextId
    /\ UNCHANGED <<pc, positions, idx, sent, orderIds, closeLog, out,
                   dispatchVars, loopVars>>

Session_PlaceLimitOrder ==
    /\ CanPlace
    /\ \E in \in CnLimitOrders, g \in GwOutcomes :
         LET s == ChineseStrategy_PlaceLimitOrder_Impl(in, gwNextId, g)
         IN  /\ sessReq' = [op |-> "PlaceLimitOrder", arg |-> in]
             /\ sessRet' = s.r
             /\ gwLog' = s.calls
             /\ gwNextId' = s.nextId
    /\ UNCHANGED <<pc, positions, idx, sent, orderIds, closeLog, out,
                   dispatchVars, loopVars>>

InitSession ==
    /\ sessReq = [op |-> "none", arg |-> NullOpt]
    /\ sessRet = NoResult

NextSessionOrders ==
    \/ Session_PlaceMarketOrder
    \/ Session_PlaceShortOrder
    \/ Session_PlaceStopOrder
    \/ Session_PlaceLimitOrder

\* The session adapter as a whole: place operations, then possibly a sweep.
NextSession ==
    \/ Session_PlaceMarketOrder
    \/ Session_PlaceShortOrder
    \/ Session_PlaceStopOrder
    \/ Session_PlaceLimitOrder
    \/ CloseAll_FetchFails
    \/ CloseAll_Fetch
    \/ CloseAll_Skip
    \/ CloseAll_Close
    \/ CloseAll_Return

(* ---------------- live_loop (the market-session scheduler) -------------- *)

\* The two symbol bindings and the empty one of MarketPick.
MarketPicks ==
    { [market |-> "US", symbol |-> "SPY"],
      [market |-> "CN", symbol |-> "SSE"],
      [market |-> "NONE", symbol |-> ""] }

\* The secondary market's open-window predicate: a function of the wall clock
\* alone, here the answer it gives at the instant it is asked.
is_cn_market_open_utc(cnWindow) == cnWindow

\* Mutant of pick_market: the fall-through returns US as well.
pick_market_AlwaysUS(open, cnWindow) ==
    IF IsMarketOpen(open).ret.value
    THEN [pick |-> [market |-> "US", symbol |-> "SPY"],
          events |-> <<[ev |-> "IsMarketOpen", result |-> TRUE]>>]
    ELSE IF is_cn_market_open_utc(cnWindow)
    THEN [pick |-> [market |-> "CN", symbol |-> "SSE"],
          events |-> <<[ev |-> "IsMarketOpen", result |-> FALSE],
                       [ev |-> "is_cn_market_open_utc", result |-> TRUE]>>]
    ELSE [pick |-> [market |-> "US", symbol |-> "SPY"],
          events |-> <<[ev |-> "IsMarketOpen", result |-> FALSE],
                       [ev |-> "is_cn_market_open_utc", result |-> FALSE]>>]

\* Mutant of pick_market: the secondary window is asked first.
pick_market_PrefersCN(open, cnWindow) ==
    IF is_cn_market_open_utc(cnWindow)
    THEN [pick |-> [market |-> "CN", symbol |-> "SSE"],
          events |-> <<[ev |-> "is_cn_market_open_utc", result |-> TRUE]>>]
    ELSE IF IsMarketOpen(open).ret.value
    THEN [pick |-> [market |-> "US", symbol |-> "SPY"],
          events |-> <<[ev |-> "is_cn_market_open_utc", result |-> FALSE],
                       [ev |-> "IsMarketOpen", result |-> TRUE]>>]
    ELSE [pick |-> [market |-> "NONE", symbol |-> ""],
          events |-> <<[ev |-> "is_cn_market_open_utc", result |-> FALSE],
                       [ev |-> "IsMarketOpen", result |-> FALSE]>>]

\* pick_market: the pick, and the queries it made in order. open is what the
\* adapter's clock answers, cnWindow what the secondary predicate would.
pick_market(open, cnWindow) ==
    IF IsMarketOpen(open).ret.value
    THEN [pick |-> [market |-> "US", symbol |-> "SPY"],
          events |-> <<[ev |-> "IsMarketOpen", result |-> TRUE]>>]
    ELSE IF is_cn_market_open_utc(cnWindow)
    THEN [pick |-> [market |-> "CN", symbol |-> "SSE"],
          events |-> <<[ev |-> "IsMarketOpen", result |-> FALSE],
                       [ev |-> "is_cn_market_open_utc", result |-> TRUE]>>]
    ELSE [pick |-> [market |-> "NONE", symbol |-> ""],
          events |-> <<[ev |-> "IsMarketOpen", result |-> FALSE],
                       [ev |-> "is_cn_market_open_utc", result |-> FALSE]>>]

\* One alpaca.http_get of the loop as an entry of the iteration's log.
HttpEvent(step, r) ==
    [ev |-> "http_get", step |-> step, url |-> r.request.url,
     threw |-> r.threw, status |-> r.status, body |-> r.body]

\* A Candle, as far as the loop reads it: ok and raw. raw is a prefix and the
\* payload appended to it.
Candle(ok, prefix, payload) ==
    [ok |-> ok, raw |-> [prefix |-> prefix, payload |-> payload]]

NoCandle == [ok |-> FALSE, raw |-> [prefix |-> "", payload |-> NullOpt]]

\* Mutant of GetFirst5MinCandle_US: the calendar's status is not tested.
GetFirst5MinCandle_US_CalendarUnchecked(symbol, h1, h2, h3) ==
    LET clock == http_get("/v2/clock", h1)
        cal   == http_get("/v2/calendar", h2)
        bars  == http_get("/v2/stocks/bars", h3)
    IN  IF clock.threw
        THEN [threw |-> TRUE, candle |-> NoCandle, events |-> <<HttpEvent("clock", clock)>>]
        ELSE IF ~Is2xx(clock.status)
        THEN [threw |-> FALSE, candle |-> Candle(FALSE, "clock failed: ", clock.body),
              events |-> <<HttpEvent("clock", clock)>>]
        ELSE IF cal.threw
        THEN [threw |-> TRUE, candle |-> NoCandle,
              events |-> <<HttpEvent("clock", clock), HttpEvent("calendar", cal)>>]
        ELSE IF bars.threw
        THEN [threw |-> TRUE, candle |-> NoCandle,
              events |-> <<HttpEvent("clock", clock), HttpEvent("calendar", cal),
                           HttpEvent("bars", bars)>>]
        ELSE [threw |-> FALSE, candle |-> Candle(Is2xx(bars.status), "", bars.body),
              events |-> <<HttpEvent("clock", clock), HttpEvent("calendar", cal),
                           HttpEvent("bars", bars)>>]

\* GetFirst5MinCandle_US against an endpoint that answers the clock, calendar
\* and bars requests with h1, h2, h3: the candle returned, or the runtime_error
\* of http_req escaping (threw), and the requests made in order.
GetFirst5MinCandle_US(symbol, h1, h2, h3) ==
    LET clock == http_get("/v2/clock", h1)
        cal   == http_get("/v2/calendar", h2)
        bars  == http_get("/v2/stocks/bars", h3)
    IN  IF clock.threw
        THEN [threw |-> TRUE, candle |-> NoCandle, events |-> <<HttpEvent("clock", clock)>>]
        ELSE IF ~Is2xx(clock.status)
        THEN [threw |-> FALSE, candle |-> Candle(FALSE, "clock failed: ", clock.body),
              events |-> <<HttpEvent("clock", clock)>>]
        ELSE IF cal.threw
        THEN [threw |-> TRUE, candle |-> NoCandle,
              events |-> <<HttpEvent("clock", clock), HttpEvent("calendar", cal)>>]
        ELSE IF ~Is2xx(cal.status)
        THEN [threw |-> FALSE, candle |-> Candle(FALSE, "calendar failed: ", cal.body),
              events |-> <<HttpEvent("clock", clock), HttpEvent("calendar", cal)>>]
        ELSE IF bars.threw
        THEN [threw |-> TRUE, candle |-> NoCandle,
              events |-> <<HttpEvent("clock", clock), HttpEvent("calendar", cal),
                           HttpEvent("bars", bars)>>]
        ELSE [threw |-> FALSE, candle |-> Candle(Is2xx(bars.status), "", bars.body),
              events |-> <<HttpEvent("clock", clock), HttpEvent("calendar", cal),
                           HttpEvent("bars", bars)>>]

GetFirst5MinCandle_CN_Placeholder(symbol) ==
    Candle(FALSE, "CN market data not implemented yet", NullOpt)

\* The line written to std::cout for a sampled market; the timestamp is left out.
CandleLine(p, c) ==
    [ev |-> "print", market |-> p.market, symbol |-> p.symbol,
     text |-> IF p.market = "US" THEN "US open. First 5m candle"
              ELSE "CN open. First 5m candle",
     result |-> IF c.ok THEN "OK" ELSE "FAIL", raw |-> c.raw]

NoMarketLine ==
    [ev |-> "print", market |-> "NONE", text |-> "No tracked market open."]

SampleEvent(p, c) == [ev |-> "sample", market |-> p.market, candle |-> c]

\* Top of the while body: the market is picked.
Loop_PickMarket ==
    /\ loopPc = "top"
    /\ \E open \in BOOLEAN, cnWindow \in BOOLEAN :
         LET p == pick_market(open, cnWindow)
         IN  /\ pick' = p.pick
             /\ cycleLog' = p.events
    /\ loopPc' = "picked"
    /\ UNCHANGED <<dispatchVars, sweepVars, sessionVars>>

\* pick.market == Market::US: the sample is fetched and its line printed. An
\* error escaping http_get is caught nowhere and ends live_loop.
Loop_SampleUS ==
    /\ loopPc = "picked"
    /\ pick.market = "US"
    /\ \E h1 \in HttpOutcomes, h2 \in HttpOutcomes, h3 \in HttpOutcomes :
         LET s == GetFirst5MinCandle_US(pick.symbol, h1, h2, h3)
         IN  IF s.threw
             THEN /\ cycleLog' = cycleLog \o s.events
                  /\ loopPc' = "terminated"
             ELSE /\ cycleLog' = cycleLog \o s.events
                                   \o <<SampleEvent(pick, s.candle), CandleLine(pick, s.candle)>>
                  /\ loopPc' = "printed"
    /\ UNCHANGED <<pick, dispatchVars, sweepVars, sessionVars>>

\* pick.market == Market::CN: the placeholder sample and its line.
Loop_SampleCN ==
    /\ loopPc = "picked"
    /\ pick.market # "US"
    /\ pick.market = "CN"
    /\ LET c == GetFirst5MinCandle_CN_Placeholder(pick.symbol)
       IN  cycleLog' = cycleLog \o <<SampleEvent(pick, c), CandleLine(pick, c)>>
    /\ loopPc' = "printed"
    /\ UNCHANGED <<pick, dispatchVars, sweepVars, sessionVars>>

\* else: no tracked market is open.
Loop_NoMarket ==
    /\ loopPc = "picked"
    /\ pick.market # "US"
    /\ pick.market # "CN"
    /\ cycleLog' = Append(cycleLog, NoMarketLine)
    /\ loopPc' = "printed"
    /\ UNCHANGED <<pick, dispatchVars, sweepVars, sessionVars>>

\* std::this_thread::sleep_for, then back to the top of the loop.
Loop_Sleep ==
    /\ loopPc = "printed"
    /\ cycleLog' = Append(cycleLog, [ev |-> "sleep", seconds |-> SleepSeconds])
    /\ loopPc' = "top"
    /\ UNCHANGED <<pick, dispatchVars, sweepVars, sessionVars>>

InitLoop ==
    /\ loopPc = "top"
    /\ pick = [market |-> "NONE", symbol |-> ""]
    /\ cycleLog = <<>>

NextLoop ==
    \/ Loop_PickMarket
    \/ Loop_SampleUS
    \/ Loop_SampleCN
    \/ Loop_NoMarket
    \/ Loop_Sleep

(* --------------------------- specifications ---------------------------- *)

InitDispatch ==
    /\ req = [op |-> "none", arg |-> NullOpt]
    /\ implCalls = <<>>
    /\ httpLog = <<>>
    /\ ret = [kind |-> "none"]

NextDispatch ==
    \/ CallPlaceMarketOrder
    \/ CallPlaceShortOrder
    \/ CallPlaceStopOrder
    \/ CallPlaceLimitOrder
    \/ CallCloseAllPositions
    \/ CallIsMarketOpen
    \/ CallGetNextMarketOpenTime

Init == InitDispatch /\ InitSweep /\ InitLoop /\ InitSession

\* Calls at the dispatch layer bound to the HTTP adapter.
SpecDispatch == Init /\ [][NextDispatch]_vars

\* The session adapter's closing sweep.
SpecSweep == Init /\ [][NextSweep]_vars

\* The scheduler.
SpecLoop == Init /\ [][NextLoop]_vars

\* The session adapter (ChineseStrategy) over its gateway.
SpecSession == Init /\ [][NextSession]_vars

\* The three components keep no state in common: the HTTP adapter keeps none
\* between calls, the session adapter's is its gateway's, the scheduler's is
\* local to live_loop. A run of SpecCore exercises one of them.
HttpUntouched == req.op = "none"
SessionUntouched == sessReq.op = "none" /\ pc = "idle"
LoopUntouched == loopPc = "top" /\ cycleLog = <<>>

HttpOnly == SessionUntouched /\ LoopUntouched
SessionOnly == HttpUntouched /\ LoopUntouched
LoopOnly == HttpUntouched /\ SessionUntouched

NextCore ==
    \/ HttpOnly /\ CallPlaceMarketOrder
    \/ HttpOnly /\ CallPlaceShortOrder
    \/ HttpOnly /\ CallPlaceStopOrder
    \/ HttpOnly /\ CallPlaceLimitOrder
    \/ HttpOnly /\ CallCloseAllPositions
    \/ HttpOnly /\ CallIsMarketOpen
    \/ HttpOnly /\ CallGetNextMarketOpenTime
    \/ SessionOnly /\ Session_PlaceMarketOrder
    \/ SessionOnly /\ Session_PlaceShortOrder
    \/ SessionOnly /\ Session_PlaceStopOrder
    \/ SessionOnly /\ Session_PlaceLimitOrder
    \/ LoopOnly /\ Loop_PickMarket
    \/ LoopOnly /\ Loop_SampleUS
    \/ LoopOnly /\ Loop_SampleCN
    \/ LoopOnly /\ Loop_NoMarket
    \/ LoopOnly /\ Loop_Sleep

SpecCore == Init /\ [][NextCore]_vars

(* ------------------------------ claims --------------------------------- *)

PlaceOps == {"PlaceMarketOrder", "PlaceShortOrder", "PlaceStopOrder", "PlaceLimitOrder"}
PassThroughOps == {"CloseAllPositions", "IsMarketOpen", "GetNextMarketOpenTime"}

ImplFor(op) ==
    CASE op = "PlaceMarketOrder" -> "PlaceMarketOrder_Impl"
      [] op = "PlaceShortOrder" -> "PlaceShortOrder_Impl"
      [] op = "PlaceStopOrder" -> "PlaceStopOrder_Impl"
      [] op = "PlaceLimitOrder" -> "PlaceLimitOrder_Impl"
      [] op = "CloseAllPositions" -> "CloseAllPositions_Impl"
      [] op = "IsMarketOpen" -> "IsMarketOpen_Impl"
      [] op = "GetNextMarketOpenTime" -> "GetNextMarketOpenTime_Impl"

RejectedUnseen ==
    /\ ret.kind = "invalid_argument"
    /\ implCalls = <<>>
    /\ httpLog = <<>>

\* C1: a place* call at the dispatch layer whose symbol is empty or whose
\* quantity is <= 0 fails with invalid_argument, and no adapter *_Impl method
\* (hence no HTTP request) is invoked.
C1_InvalidOrderRejected ==
    (req.op \in PlaceOps /\ (req.arg.symbol = "" \/ req.arg.qty <= 0))
        => RejectedUnseen

C1_Witness ==
    /\ req.op = "PlaceShortOrder"
    /\ req.arg.symbol = "SPY"
    /\ req.arg.qty = 0
    /\ ret = [kind |-> "invalid_argument", what |-> "qty must be > 0"]

\* C2: a limit order with limitPrice <= 0 and a stop order with stopPrice <= 0
\* fail with invalid_argument before the adapter is invoked.
C2_NonPositivePriceRejected ==
    (\/ (req.op = "PlaceLimitOrder" /\ req.arg.limitPrice <= 0)
     \/ (req.op = "PlaceStopOrder" /\ req.arg.stopPrice <= 0))
        => RejectedUnseen

C2_Witness ==
    /\ req.op = "PlaceStopOrder"
    /\ req.arg.symbol = "SPY"
    /\ req.arg.qty > 0
    /\ req.arg.stopPrice = 0
    /\ ret = [kind |-> "invalid_argument", what |-> "stopPrice must be > 0"]

PassesValidation ==
    /\ req.arg.symbol # ""
    /\ req.arg.qty > 0
    /\ req.op = "PlaceLimitOrder" => req.arg.limitPrice > 0
    /\ req.op = "PlaceStopOrder" => req.arg.stopPrice > 0

ForwardedOnce ==
    /\ Len(implCalls) = 1
    /\ implCalls[1].op = ImplFor(req.op)
    /\ implCalls[1].arg = req.arg
    /\ IF implCalls[1].threw
       THEN ret = [kind |-> "runtime_error"]
       ELSE ret = [kind |-> "return", value |-> implCalls[1].result]

\* C3: an order that passes validation makes exactly one adapter invocation,
\* of the operation of its kind and with the order as given, and the call
\* returns what the adapter returned (or lets the adapter's error through);
\* CloseAllPositions, IsMarketOpen and GetNextMarketOpenTime are forwarded
\* in the same way with nothing validated.
C3_ForwardedVerbatim ==
    /\ (req.op \in PlaceOps /\ PassesValidation) => ForwardedOnce
    /\ req.op \in PassThroughOps => ForwardedOnce

C3_Witness ==
    /\ req.op = "PlaceShortOrder"
    /\ Len(implCalls) = 1
    /\ implCalls[1].arg = req.arg
    /\ ret.kind = "return"
    /\ ret.value.accepted
    /\ ret.value.orderId = "ord-1"

(* The closing sweep, as the gateway and the caller see it. *)

Fetched == gwLog # <<>> /\ gwLog[1].op = "getOpenPositionsSnapshot" /\ gwLog[1].ok
FetchFailed == gwLog # <<>> /\ gwLog[1].op = "getOpenPositionsSnapshot" /\ ~gwLog[1].ok

IsPlaceOrder(c) == c.op = "placeOrder"
IsAcceptedOrder(c) == c.op = "placeOrder" /\ c.ok
PlaceCalls == SelectSeq(gwLog, IsPlaceOrder)
AcceptedCalls == SelectSeq(gwLog, IsAcceptedOrder)
GatewayAcceptsAll == \A i \in DOMAIN gwLog : gwLog[i].ok

AtLeastEps(p) == p.position >= Eps \/ p.position <= -Eps
\* the positions of the snapshot that are at least epsilon in size, in order
OpenOnes == SelectSeq(positions, AtLeastEps)

ClosesPosition(call, p) ==
    /\ call.order.action = (IF p.position < 0 THEN "BUY" ELSE "SELL")
    /\ call.order.orderType = "MKT"
    /\ call.order.totalQuantity = (IF p.position < 0 THEN -p.position ELSE p.position)
    /\ call.order.tif = "DAY"
    /\ call.contract.symbol = p.instrument.symbol

\* C4, as stated: with a gateway that accepts every order, a sweep over a
\* snapshot of N positions places exactly N market orders, one per position,
\* Buy for a negative and Sell for a positive signed quantity, of the absolute
\* quantity and Day time-in-force.
C4_OneOrderPerPosition ==
    (pc = "returned" /\ Fetched /\ GatewayAcceptsAll) =>
        /\ Len(PlaceCalls) = Len(positions)
        /\ \A k \in 1..Len(positions) :
             k <= Len(PlaceCalls) => ClosesPosition(PlaceCalls[k], positions[k])

\* C4, amended: exactly one market order per position whose absolute signed
\* quantity is at least 1e-12, in snapshot order; smaller positions get none.
C4_OneOrderPerOpenPosition ==
    (pc = "returned" /\ Fetched /\ GatewayAcceptsAll) =>
        /\ Len(PlaceCalls) = Len(OpenOnes)
        /\ \A k \in 1..Len(OpenOnes) :
             k <= Len(PlaceCalls) => ClosesPosition(PlaceCalls[k], OpenOnes[k])

C4_Witness ==
    /\ pc = "returned" /\ Fetched /\ GatewayAcceptsAll
    /\ Len(positions) = 2
    /\ positions[1].position = -3
    /\ positions[2].position = 2
    /\ Len(PlaceCalls) = 2
    /\ PlaceCalls[1].order.action = "BUY"
    /\ PlaceCalls[2].order.action = "SELL"

RECURSIVE IdsOf(_)
IdsOf(calls) ==
    IF calls = <<>> THEN <<>> ELSE <<Head(calls).orderId>> \o IdsOf(Tail(calls))

Attempted(i) == \E k \in DOMAIN closeLog : closeLog[k].pos = i

SweepAccounting ==
    /\ out.closeOrdersSent = Len(AcceptedCalls)
    /\ out.orderIds = IdsOf(AcceptedCalls)
    /\ out.closeOrdersSent = Len(out.orderIds)

\* C5, as stated: a failed close never aborts the sweep: whatever the pattern
\* of failures, every non-zero position gets its close attempt, ordersSent is
\* the number of accepted closes, and orderIds holds exactly their identifiers.
C5_EveryNonZeroPositionAttempted ==
    (pc = "returned" /\ Fetched) =>
        /\ \A i \in DOMAIN positions : positions[i].position # 0 => Attempted(i)
        /\ SweepAccounting

\* C5, amended: a failed close never aborts the sweep: whatever the pattern of
\* failures, every position of absolute size at least 1e-12 (and no other)
\* gets its close attempt, for which an order id is requested; ordersSent is
\* the number of orders the gateway accepted, and orderIds holds exactly their
\* identifiers.
C5_BestEffortSweep ==
    (pc = "returned" /\ Fetched) =>
        /\ \A i \in DOMAIN positions : AtLeastEps(positions[i]) <=> Attempted(i)
        /\ Len(closeLog) = Len(OpenOnes)
        /\ \A k \in DOMAIN closeLog :
             /\ closeLog[k].calls # <<>>
             /\ closeLog[k].calls[1].op = "nextOrderId"
        /\ SweepAccounting

C5_Witness ==
    /\ pc = "returned" /\ Fetched
    /\ Len(closeLog) = 2
    /\ ~closeLog[1].res.ok
    /\ closeLog[2].res.ok
    /\ out.closeOrdersSent = 1
    /\ out.orderIds = <<closeLog[2].res.orderId>>

\* C6: when the snapshot fetch fails, the sweep returns ok = false with the
\* failure message and attempts nothing: the fetch is the only gateway call.
C6_SnapshotFailureAborts ==
    (pc = "returned" /\ FetchFailed) =>
        /\ out.ok = FALSE
        /\ out.message.text = "Failed to fetch positions: "
        /\ out.message.what = gwLog[1].what
        /\ out.closeOrdersSent = 0
        /\ out.orderIds = <<>>
        /\ Len(gwLog) = 1
        /\ closeLog = <<>>

C6_Witness ==
    /\ pc = "returned"
    /\ FetchFailed
    /\ ~out.ok
    /\ out.message.what = "not connected"

\* C7: a sweep over an empty snapshot returns ok = true, ordersSent = 0 and no
\* identifiers, and places nothing on the gateway.
C7_EmptySnapshot ==
    (pc = "returned" /\ Fetched /\ positions = <<>>) =>
        /\ out.ok = TRUE
        /\ out.closeOrdersSent = 0
        /\ out.orderIds = <<>>
        /\ Len(gwLog) = 1

C7_Witness ==
    /\ pc = "returned" /\ Fetched
    /\ positions = <<>>
    /\ out.ok

NoneAccepted == AcceptedCalls = <<>>

\* C8: whenever the snapshot fetch succeeds the sweep reports ok = true; when
\* every close is rejected it reports ok = true with ordersSent = 0.
C8_SuccessMeansSweepCompleted ==
    (pc = "returned" /\ Fetched) =>
        /\ out.ok = TRUE
        /\ NoneAccepted => out.closeOrdersSent = 0

C8_Witness ==
    /\ pc = "returned" /\ Fetched
    /\ Len(closeLog) = 2
    /\ ~closeLog[1].res.ok
    /\ ~closeLog[2].res.ok
    /\ out.ok
    /\ out.closeOrdersSent = 0

RECURSIVE CallsOf(_)
CallsOf(log) ==
    IF log = <<>> THEN <<>> ELSE Head(log).calls \o CallsOf(Tail(log))

IsAcceptedClose(e) == e.res.ok

RECURSIVE ResultIdsOf(_)
ResultIdsOf(log) ==
    IF log = <<>> THEN <<>> ELSE <<Head(log).res.orderId>> \o ResultIdsOf(Tail(log))

\* C9: the closes of a sweep are submitted one position at a time in snapshot
\* order: the gateway sees the calls for position i before any call for a
\* later position, and the returned orderIds are the accepted identifiers in
\* that order.
C9_SnapshotOrder ==
    /\ \A j, k \in DOMAIN closeLog : j < k => closeLog[j].pos < closeLog[k].pos
    /\ \A k \in DOMAIN closeLog : closeLog[k].pos < idx
    /\ (Fetched => Tail(gwLog) = CallsOf(closeLog))
    /\ orderIds = ResultIdsOf(SelectSeq(closeLog, IsAcceptedClose))
    /\ (pc = "returned" /\ Fetched) =>
         /\ out.orderIds = ResultIdsOf(SelectSeq(closeLog, IsAcceptedClose))
         /\ out.orderIds = IdsOf(AcceptedCalls)

C9_Witness ==
    /\ pc = "returned" /\ Fetched
    /\ Len(closeLog) = 2
    /\ closeLog[1].res.ok
    /\ closeLog[2].res.ok
    /\ out.orderIds = <<closeLog[1].res.orderId, closeLog[2].res.orderId>>
    /\ Len(gwLog) = 5

\* C10: every closing order passes the dispatch layer's validation before the
\* gateway sees it: no order for an instrument with an empty symbol reaches
\* the gateway's placeOrder.
C10_EmptySymbolNeverPlaced ==
    \A i \in DOMAIN gwLog :
        gwLog[i].op = "placeOrder" => gwLog[i].contract.symbol # ""

(* The scheduler, as an observer of one iteration sees it. *)

IsClockQuery(e) == e.ev = "IsMarketOpen"
IsCnQuery(e) == e.ev = "is_cn_market_open_utc"
IsHttpGet(e) == e.ev = "http_get"
IsSample(e) == e.ev = "sample"
IsPrint(e) == e.ev = "print"
IsSleep(e) == e.ev = "sleep"
ClockQueries == SelectSeq(cycleLog, IsClockQuery)
CnQueries == SelectSeq(cycleLog, IsCnQuery)
HttpGets == SelectSeq(cycleLog, IsHttpGet)
Samples == SelectSeq(cycleLog, IsSample)
Prints == SelectSeq(cycleLog, IsPrint)
Sleeps == SelectSeq(cycleLog, IsSleep)

IsClockStep(e) == e.ev = "http_get" /\ e.step = "clock"
ClockRequests == SelectSeq(cycleLog, IsClockStep)

\* the iteration has picked its market
Picked == cycleLog # <<>>
\* the iteration has gone through its if / else-if / else
Branched == Picked /\ loopPc # "picked"
\* the iteration is over: it slept and is back at the top, or live_loop ended
CycleOver == Picked /\ loopPc \in {"top", "terminated"}

ClockSaid(b) == ClockQueries # <<>> /\ ClockQueries[1].result = b
CnWindowSaid(b) == CnQueries # <<>> /\ CnQueries[1].result = b

\* C11: in one cycle, if the primary adapter reports IsMarketOpen() = true the
\* cycle selects the US market and runs the sample fetch exactly once; if it
\* reports false and the secondary-window predicate is false, the cycle selects
\* no market and issues no clock, calendar or bars request.
C11_CycleSelection ==
    /\ (Picked /\ ClockSaid(TRUE)) =>
         /\ pick.market = "US"
         /\ Branched => (Len(ClockRequests) = 1 /\ Len(Samples) <= 1)
         /\ (loopPc \in {"printed", "top"}) => Len(Samples) = 1
    /\ (Picked /\ ClockSaid(FALSE) /\ CnWindowSaid(FALSE)) =>
         /\ pick.market = "NONE"
         /\ HttpGets = <<>>
         /\ Samples = <<>>

C11_Witness ==
    /\ loopPc = "top"
    /\ ClockSaid(TRUE)
    /\ pick.market = "US"
    /\ Len(HttpGets) = 3
    /\ Len(Samples) = 1
    /\ Samples[1].candle.ok

\* C12: the scheduler never terminates because of a failure inside a cycle:
\* whatever fails, a transport failure of an adapter call included, the cycle
\* reaches Sleeping and a next cycle begins.
C12_LoopNeverTerminates == loopPc # "terminated"

\* C13: every cycle emits exactly one status observation, before it sleeps,
\* whatever its outcome, and the line tells the outcomes apart: OK or FAIL
\* with the market's name for a selected market, "No tracked market open"
\* for none.
C13_OneObservationPerCycle ==
    CycleOver =>
        /\ Len(Prints) = 1
        /\ Prints[1].market = pick.market
        /\ pick.market = "NONE" => Prints[1].text = "No tracked market open."
        /\ pick.market # "NONE" =>
             /\ Prints[1].result \in {"OK", "FAIL"}
             /\ Prints[1].result = "OK" <=> Samples[1].candle.ok
        /\ \A i \in DOMAIN cycleLog : cycleLog[i].ev = "sleep" => i = Len(cycleLog)

In2xx(status) == status \in 200..299

\* C14: in the US sample fetch a non-2xx response at any step (clock,
\* calendar, bars) yields a sample with ok = false that carries the raw payload
\* of the failing step; the sample is ok = true only if every request returned
\* a 2xx status.
C14_SampleFollowsStatuses ==
    (Samples # <<>> /\ Samples[1].market = "US") =>
        LET c    == Samples[1].candle
            n    == Len(HttpGets)
        IN  /\ n \in 1..3
            /\ \A i \in 1..(n - 1) : In2xx(HttpGets[i].status)
            /\ ~In2xx(HttpGets[n].status) =>
                 /\ c.ok = FALSE
                 /\ c.raw.payload = HttpGets[n].body
            /\ c.ok <=> (n = 3 /\ \A i \in 1..n : In2xx(HttpGets[i].status))

C14_Witness ==
    /\ Samples # <<>>
    /\ Samples[1].market = "US"
    /\ Len(HttpGets) = 2
    /\ HttpGets[2].status = 300
    /\ ~Samples[1].candle.ok
    /\ Samples[1].candle.raw.prefix = "calendar failed: "
    /\ Samples[1].candle.raw.payload = HttpGets[2].body

\* C15: cycles are sequential and paced: every cycle, whatever its outcome,
\* ends with one Sleeping step, so exactly one sleep lies between two
\* consecutive IsMarketOpen() queries, and nothing of the next cycle starts
\* before the sleep is over.
C15_EveryCycleEndsAsleep ==
    /\ CycleOver =>
         /\ Len(Sleeps) = 1
         /\ cycleLog[Len(cycleLog)].ev = "sleep"
    /\ (Picked /\ ~CycleOver) => Sleeps = <<>>
    /\ Len(ClockQueries) <= 1

HttpAnswered == httpLog # <<>> /\ ~httpLog[1].threw
HttpUnreachable == httpLog # <<>> /\ httpLog[1].threw

\* C16: the HTTP adapter never raises an error for a business rejection: a
\* completed response with a non-2xx status to a place* request comes back as
\* an OrderResult with accepted = false and a non-empty message that carries
\* the status, and accepted = true comes back if and only if the status is in
\* [200, 300).
C16_RejectionIsAResult ==
    (req.op \in PlaceOps /\ HttpAnswered) =>
        /\ Len(httpLog) = 1
        /\ ret.kind = "return"
        /\ ret.value.accepted <=> In2xx(httpLog[1].status)
        /\ ~In2xx(httpLog[1].status) =>
             /\ ret.value.accepted = FALSE
             /\ ret.value.message.text # ""
             /\ ret.value.message.status = httpLog[1].status

C16_Witness ==
    /\ req.op = "PlaceStopOrder"
    /\ HttpAnswered
    /\ httpLog[1].status = 422
    /\ ret.kind = "return"
    /\ ret.value.accepted = FALSE
    /\ ret.value.message.status = 422

IsFailedCall(c) == ~c.ok
FailedCalls(calls) == SelectSeq(calls, IsFailedCall)

\* C17: a transport failure during an order operation (the broker cannot be
\* reached, or the gateway call fails) comes back to the caller as a failed
\* OrderResult, accepted/ok = false with a message, for both adapters, and
\* not as no result.
C17_TransportFailureIsAResult ==
    /\ (req.op \in PlaceOps /\ HttpUnreachable) =>
         /\ ret.kind = "return"
         /\ ret.value.accepted = FALSE
         /\ ret.value.message.text # ""
    /\ \A k \in DOMAIN closeLog :
         FailedCalls(closeLog[k].calls) # <<>> =>
             /\ closeLog[k].res.ok = FALSE
             /\ closeLog[k].res.message.text # ""

\* C18: no order whose instrument has secType = "FUT" and an empty contract
\* month ever reaches the gateway's placeOrder, through a place* operation or
\* through the closing sweep.
C18_NoFutureWithoutMonth ==
    \A i \in DOMAIN gwLog :
        gwLog[i].op = "placeOrder" =>
            ~(/\ gwLog[i].contract.secType = "FUT"
              /\ gwLog[i].contract.lastTradeDateOrContractMonth = "")

IsNextOrderId(c) == c.op = "nextOrderId"
NextIdCalls == SelectSeq(gwLog, IsNextOrderId)

\* C20, as stated: the closing sweep issues a closing order only for positions
\* whose |signedQuantity| exceeds epsilon.
C20_OnlyAboveEpsilonClosed ==
    \A k \in DOMAIN closeLog : Abs(positions[closeLog[k].pos].position) > Eps

\* C20, amended: the closing sweep issues a closing order only for positions
\* whose |signedQuantity| is at least epsilon (one of exactly epsilon is
\* closed): a position of signed quantity zero is skipped, with no order id
\* requested, no order placed and nothing counted in ordersSent, and the
\* positions after it are still processed.
C20_ZeroSkippedRestProcessed ==
    (pc \in {"loop", "returned"}) =>
        /\ \A k \in DOMAIN closeLog : AtLeastEps(positions[closeLog[k].pos])
        /\ \A i \in DOMAIN positions :
             /\ (i < idx /\ positions[i].position = 0) => ~Attempted(i)
             /\ (i < idx /\ AtLeastEps(positions[i])) => Attempted(i)
        /\ Len(NextIdCalls) = Len(closeLog)
        /\ Len(PlaceCalls) <= Len(closeLog)
        /\ sent <= Len(closeLog)
        /\ pc = "returned" => idx = Len(positions) + 1

C20_Witness ==
    /\ pc = "returned"
    /\ Len(positions) = 2
    /\ positions[1].position = 0
    /\ positions[2].position = Eps
    /\ Len(closeLog) = 1
    /\ closeLog[1].pos = 2
    /\ closeLog[1].res.ok
    /\ Len(NextIdCalls) = 1
    /\ out.closeOrdersSent = 1

(* The session adapter called directly. *)

SessionPlaceOps == {"PlaceMarketOrder", "PlaceShortOrder", "PlaceStopOrder", "PlaceLimitOrder"}
SessionPlaced == sessReq.op \in SessionPlaceOps

InvalidSessionOrder ==
    /\ SessionPlaced
    /\ \/ sessReq.arg.quantity <= 0
       \/ sessReq.op = "PlaceStopOrder" /\ sessReq.arg.stopPrice <= 0
       \/ sessReq.op = "PlaceLimitOrder" /\ sessReq.arg.limitPrice <= 0

\* C22: the session adapter answers an invalid order called on it directly
\* with a result, not an error: a place* call with quantity <= 0, or a
\* limit/stop call with a price not > 0, returns ok = false and makes no
\* gateway call, neither nextOrderId nor placeOrder, so no id is consumed.
C22_InvalidSessionOrderRefused ==
    InvalidSessionOrder =>
        /\ sessRet # NoResult
        /\ sessRet.ok = FALSE
        /\ sessRet.message.text # ""
        /\ gwLog = <<>>

C22_Witness ==
    /\ sessReq.op = "PlaceLimitOrder"
    /\ sessReq.arg.quantity > 0
    /\ sessReq.arg.limitPrice = 0
    /\ sessRet.ok = FALSE
    /\ sessRet.message.text = "LimitPrice must be > 0"
    /\ gwLog = <<>>
    /\ IdsIssued = 1

\* What one SendOrder did at the gateway, for the result r it returned.
ResultMatchesCalls(r, calls) ==
    /\ r.ok =>
         /\ Len(calls) = 2
         /\ calls[1].op = "nextOrderId" /\ calls[1].ok
         /\ calls[2].op = "placeOrder" /\ calls[2].ok
         /\ r.orderId = calls[1].orderId
         /\ r.orderId = calls[2].orderId
    /\ ~r.ok => r.orderId = -1

IsIssuedId(c) == c.op = "nextOrderId" /\ c.ok
PairwiseDistinct(seq) ==
    \A i \in DOMAIN seq : \A j \in DOMAIN seq : i # j => seq[i] # seq[j]

\* C23: for every OrderResult of the session adapter, ok = true implies that
\* orderId is the id nextOrderId returned in that submission and placeOrder
\* was given; ok = false implies orderId = -1, also when nextOrderId succeeded
\* and placeOrder failed: the id taken is not reported and not used again. So
\* the orderIds of one closing sweep are pairwise distinct.
C23_OrderIdOfResult ==
    /\ SessionPlaced => ResultMatchesCalls(sessRet, gwLog)
    /\ \A k \in DOMAIN closeLog : ResultMatchesCalls(closeLog[k].res, closeLog[k].calls)
    /\ \A i \in DOMAIN gwLog : IsIssuedId(gwLog[i]) => gwLog[i].orderId < gwNextId
    /\ PairwiseDistinct(IdsOf(SelectSeq(gwLog, IsIssuedId)))
    /\ PairwiseDistinct(orderIds)
    /\ pc = "returned" /\ Fetched => PairwiseDistinct(out.orderIds)

C23_Witness ==
    /\ pc = "returned"
    /\ Len(closeLog) = 2
    /\ Len(closeLog[1].calls) = 2
    /\ closeLog[1].calls[1].orderId = 2
    /\ ~closeLog[1].calls[2].ok
    /\ closeLog[1].res.orderId = -1
    /\ closeLog[2].res.ok
    /\ closeLog[2].res.orderId = 3
    /\ out.orderIds = <<3>>

IsPost(h) == h.request.method = "POST"
IsDelete(h) == h.request.method = "DELETE"

\* C24: the HTTP adapter's CloseAllPositions runs no per-position sweep: it
\* issues exactly one DELETE request and no order POST, and returns
\* success = true if and only if that response's status is in [200, 300); a
\* non-2xx response yields success = false with the status in the message.
C24_CloseAllIsOneDelete ==
    req.op = "CloseAllPositions" =>
        /\ Len(httpLog) = 1
        /\ Len(SelectSeq(httpLog, IsDelete)) = 1
        /\ SelectSeq(httpLog, IsPost) = <<>>
        /\ Len(implCalls) = 1
        /\ HttpAnswered =>
             /\ ret.kind = "return"
             /\ ret.value.success <=> In2xx(httpLog[1].status)
             /\ ~In2xx(httpLog[1].status) =>
                  /\ ret.value.success = FALSE
                  /\ ret.value.message.status = httpLog[1].status

C24_Witness ==
    /\ req.op = "CloseAllPositions"
    /\ httpLog[1].request = [method |-> "DELETE", url |-> "/v2/positions", body |-> NullOpt]
    /\ httpLog[1].status = 300
    /\ ret.kind = "return"
    /\ ret.value.success = FALSE
    /\ ret.value.message.status = 300

(* No retries. *)

StepRequests(step) ==
    {i \in DOMAIN cycleLog : cycleLog[i].ev = "http_get" /\ cycleLog[i].step = step}
StepSucceeded(e) == ~e.threw /\ In2xx(e.status)

\* C21: nothing is retried automatically: each place* call makes at most one
\* broker submission (one POST, or one nextOrderId followed by at most one
\* placeOrder) whatever its outcome, and within one scheduler cycle each
\* request of the sample fetch (clock, calendar, bars) is issued at most once,
\* none being issued after a step that failed.
C21_NoAutomaticRetry ==
    /\ req.op \in PlaceOps =>
         /\ Len(implCalls) <= 1
         /\ Len(httpLog) <= 1
         /\ Len(SelectSeq(httpLog, IsPost)) = Len(httpLog)
    /\ SessionPlaced =>
         /\ Len(NextIdCalls) <= 1
         /\ Len(PlaceCalls) <= 1
         /\ Len(gwLog) = Len(NextIdCalls) + Len(PlaceCalls)
         /\ PlaceCalls # <<>> =>
              /\ gwLog[1].op = "nextOrderId" /\ gwLog[1].ok
              /\ gwLog[2].op = "placeOrder"
    /\ \A step \in {"clock", "calendar", "bars"} : Cardinality(StepRequests(step)) <= 1
    /\ Len(HttpGets) <= 3
    /\ \A i \in DOMAIN HttpGets :
         i < Len(HttpGets) => StepSucceeded(HttpGets[i])

C21_Witness ==
    /\ sessReq.op = "PlaceShortOrder"
    /\ sessRet.ok = FALSE
    /\ Len(gwLog) = 2
    /\ gwLog[1].op = "nextOrderId" /\ gwLog[1].ok
    /\ gwLog[2].op = "placeOrder" /\ ~gwLog[2].ok
    /\ gwNextId = gwLog[1].orderId + 1
====
